---- MODULE Spec2Model ----
(***************************************************************************)
(* The MCP server of auto-scale-ai (server.py) behind its FastAPI endpoint *)
(* /agent (main.py).  One MCPServer instance, built at import time, is     *)
(* shared by every agent() coroutine of the event loop.                    *)
(*                                                                         *)
(* Python values: a str, an int and None are records made by JStr, JInt   *)
(* and JNone (TLC cannot compare a string with a number); a dict is a      *)
(* function from its keys, a list is a sequence.                           *)
(*                                                                         *)
(* Beside the run, a shadow run serves the same request bodies, each with  *)
(* the other Authorization header: what the two runs agree on does not    *)
(* depend on the bearer token.                                             *)
(*                                                                         *)
(* The client (client.py) is modelled against any server: what comes back  *)
(* for a request is an input.  SpecClient drives one MCPClient through its *)
(* context manager with call_tool coroutines in its body; SpecChat is      *)
(* main(): the handshake, then the turns of MCPAzureChat.chat.             *)
(***************************************************************************)
EXTENDS Integers, Sequences, FiniteSets, TLC

\* Number of requests the clients send in one run.
MaxTasks == 3

Tasks == 1..MaxTasks

\* Number of times the client's context manager is entered in one run.
MaxEnters == 2

\* Number of call_tool coroutines of the client in one run.
MaxCalls == 2

\* Number of turns of the chat in one run.
MaxTurns == 2

\* Number of tool calls the model lists in one response.
MaxToolCalls == 2

Calls == 1..MaxCalls

VARIABLES
    cls,            \* the attributes of the class MCPServer
    mcp_server,     \* the __dict__ of the instance main.py builds
    tasks,          \* the agent() coroutines: position, locals, outcome
    running,        \* the coroutine the event loop is running, 0 for none
    log,            \* the coroutines that ended, in the order they ended
    together,       \* whether all the coroutines were in flight at one time
    shadow_server,  \* a second run of the same request bodies, each sent
    shadow_tasks,   \*   with the other Authorization header
    client,         \* the attributes of the MCPClient instance
    wire,           \* the requests the client sent, in sending order, and
                    \*   what became of each
    cm,             \* the user of the client: where it stands in "async with"
    calls,          \* the call_tool coroutines of SpecClient
    chat            \* the MCPAzureChat instance and the frame of its chat()

serverVars ==
    <<cls, mcp_server, tasks, running, log, together, shadow_server, shadow_tasks>>

clientVars == <<client, wire, cm, calls>>

vars == <<serverVars, clientVars, chat>>

---------------------------------------------------------------------------
\* Python values

JStr(x) == [kind |-> "str", s |-> x, n |-> 0]
JInt(k) == [kind |-> "int", s |-> "", n |-> k]
JNone == [kind |-> "none", s |-> "", n |-> 0]

EmptyDict == [k \in {} |-> JNone]

\* dict.get(key, default)
DictGet(d, key, default) == IF key \in DOMAIN d THEN d[key] ELSE default

Digit(d) ==
    CASE d = 0 -> "0" [] d = 1 -> "1" [] d = 2 -> "2" [] d = 3 -> "3"
      [] d = 4 -> "4" [] d = 5 -> "5" [] d = 6 -> "6" [] d = 7 -> "7"
      [] d = 8 -> "8" [] d = 9 -> "9"

RECURSIVE NatToStr(_)
NatToStr(k) == IF k < 10 THEN Digit(k) ELSE NatToStr(k \div 10) \o Digit(k % 10)

\* str(int)
IntToStr(k) == IF k < 0 THEN "-" \o NatToStr(0 - k) ELSE NatToStr(k)

\* What an f-string writes for {v}: format(v, "").
PyFormat(v) ==
    CASE v.kind = "str" -> v.s
      [] v.kind = "int" -> IntToStr(v.n)
      [] v.kind = "none" -> "None"

---------------------------------------------------------------------------
\* Attribute access on the MCPServer instance

\* Faulty variant: the class attribute is read even when the instance has its own.
GetAttrClassFirst(obj, c, name) == IF name \in DOMAIN c THEN c[name] ELSE obj[name]

\* getattr(self, name): the instance __dict__ first, then the class.
GetAttr(obj, c, name) == IF name \in DOMAIN obj THEN obj[name] ELSE c[name]

\* setattr(self, name, v): always the instance __dict__.
SetAttr(obj, name, v) ==
    [k \in DOMAIN obj \cup {name} |-> IF k = name THEN v ELSE obj[k]]

\* The class body of MCPServer: its one data attribute.
ClassTicketId == 0

MCPServerClass == [ticket_id |-> ClassTicketId]

\* MCPServer.__init__
InitTicketId == 42

GenerateTicketTool ==
    [name |-> "generate_ticket",
     description |-> "Generate a ticket for the customer",
     inputSchema |-> [type |-> "object", properties |-> EmptyDict, required |-> <<>>]]

\* Faulty variant: the tool the module's docstring speaks of is registered too.
NewToolsWithTime ==
    << [key |-> "generate_ticket", value |-> GenerateTicketTool],
       [key |-> "get_time",
        value |-> [name |-> "get_time", description |-> "Get current server time",
                   inputSchema |-> [type |-> "object", properties |-> EmptyDict,
                                    required |-> <<>>]]] >>

\* self.tools: a dict keeps its insertion order, so a sequence of items.
NewTools == << [key |-> "generate_ticket", value |-> GenerateTicketTool] >>

NewMCPServer == [ticket_id |-> InitTicketId, tools |-> NewTools]

---------------------------------------------------------------------------
\* server.py: the handlers

\* What a call leaves behind: a returned value or a raised exception.
Return(v) == [kind |-> "return", value |-> v]
Raise(e, m) == [kind |-> "raise", exc |-> e, msg |-> m]
Pending == [kind |-> "pending"]

\* Faulty variant: the protocol version is negotiated: the client's own is answered.
HandleInitializeEcho(params) ==
    [protocolVersion |-> PyFormat(DictGet(params, "protocolVersion", JStr("2024-11-05"))),
     capabilities |-> [tools |-> [listChanged |-> TRUE]],
     serverInfo |-> [name |-> "auto-scale-ai", version |-> "1.0.0"]]

\* MCPServer.handle_initialize(params)
HandleInitialize(params) ==
    [protocolVersion |-> "2024-11-05",
     capabilities |-> [tools |-> [listChanged |-> TRUE]],
     serverInfo |-> [name |-> "auto-scale-ai", version |-> "1.0.0"]]

\* list(d.values())
DictValues(items) == [i \in 1..Len(items) |-> items[i].value]

\* MCPServer.handle_tools_list(params)
HandleToolsList(obj, c, params) == [tools |-> DictValues(GetAttr(obj, c, "tools"))]

\* Faulty variant: a call that names no tool is taken for generate_ticket.
ToolsCallBranchDefault(params, bearer_token) ==
    LET tool_name == DictGet(params, "name", JStr("generate_ticket"))
    IN  [tool_name |-> tool_name, generate |-> tool_name = JStr("generate_ticket")]

\* Faulty variant: generate_ticket is served to callers with a bearer token only.
ToolsCallBranchAuth(params, bearer_token) ==
    LET tool_name == DictGet(params, "name", JNone)
    IN  [tool_name |-> tool_name,
         generate |-> tool_name = JStr("generate_ticket") /\ bearer_token # JNone]

\* MCPServer.handle_tools_call, up to its branch: the tool name it reads and
\* whether the generate_ticket branch is taken.
ToolsCallBranch(params, bearer_token) ==
    LET tool_name == DictGet(params, "name", JNone)
    IN  [tool_name |-> tool_name, generate |-> tool_name = JStr("generate_ticket")]

\* The text block handle_tools_call returns, written from the counter it reads.
TicketResult(ticket_id) ==
    [content |-> << [type |-> "text",
                     text |-> "Ticket generated: ID: " \o PyFormat(JInt(ticket_id))] >>]

UnknownTool(tool_name) == Raise("ValueError", "Unknown tool: " \o PyFormat(tool_name))

\* Faulty variant: an unknown method is answered with the tool list.
RouteDefault(method) ==
    IF method = JStr("initialize") THEN "handle_initialize"
    ELSE IF method = JStr("tools/call") THEN "handle_tools_call"
    ELSE "handle_tools_list"

\* Faulty variant: the handshake is enforced: before an initialize request has been
\* answered, every other method is refused.
RouteAfterHandshake(method) ==
    IF method = JStr("initialize") THEN "handle_initialize"
    ELSE IF \A k \in 1..Len(log) : tasks[log[k]].handlers # <<"handle_initialize">>
      THEN "raise"
    ELSE IF method = JStr("tools/list") THEN "handle_tools_list"
    ELSE IF method = JStr("tools/call") THEN "handle_tools_call"
    ELSE "raise"

\* MCPServer.handle_request: the handler a method string is routed to.
Route(method) ==
    IF method = JStr("initialize") THEN "handle_initialize"
    ELSE IF method = JStr("tools/list") THEN "handle_tools_list"
    ELSE IF method = JStr("tools/call") THEN "handle_tools_call"
    ELSE "raise"

UnknownMethod(method) == Raise("ValueError", "Unknown method: " \o PyFormat(method))

---------------------------------------------------------------------------
\* main.py: what the clients send

AuthHeader == [Authorization |-> JStr("Bearer test-token-123")]

\* The headers a request comes with: no Authorization header, or locust's.
Headers == << EmptyDict, AuthHeader >>

InitializeParams ==
    [protocolVersion |-> JStr("2024-11-05"),
     capabilities |-> EmptyDict,
     clientInfo |-> [name |-> JStr("locust-test"), version |-> JStr("1.0.0")]]

Envelope(id, method, params) ==
    [jsonrpc |-> JStr("2.0"), id |-> id, method |-> method, params |-> params]

NoParams(id, method) == [jsonrpc |-> JStr("2.0"), id |-> id, method |-> method]

\* The request bodies: locust's three payloads, and the ones the handlers
\* have a branch for (another params, an unknown tool with arguments, no tool
\* name, an unknown method, a body without "params").
Bodies ==
    << Envelope(JInt(1), JStr("initialize"), InitializeParams),
       Envelope(JInt(1), JStr("initialize"), [protocolVersion |-> JStr("1999-01-01")]),
       Envelope(JInt(2), JStr("tools/list"), EmptyDict),
       Envelope(JInt(3), JStr("tools/call"), [name |-> JStr("generate_ticket")]),
       Envelope(JInt(3), JStr("tools/call"),
                [name |-> JStr("nonexistent"), arguments |-> [customer |-> JStr("c-17")]]),
       Envelope(JInt(3), JStr("tools/call"), EmptyDict),
       Envelope(JInt(4), JStr("bogus_method"), EmptyDict),
       NoParams(JInt(2), JStr("tools/list")),
       NoParams(JInt(3), JStr("tools/call")) >>

---------------------------------------------------------------------------
\* Initial state

NewTask ==
    [pc |-> "idle",
     request_data |-> EmptyDict, headers |-> EmptyDict,
     method |-> JNone, bearer_token |-> JNone,
     tool_name |-> JNone, tmp |-> 0, result |-> EmptyDict,
     outcome |-> Pending,
     \* history: the handlers entered, whether handle_request was entered,
     \* the server at that time and when the coroutine ended, the coroutines
     \* that had ended when handle_request was entered
     handlers |-> <<>>, called |-> FALSE, before |-> EmptyDict, after |-> EmptyDict,
     ended_before |-> <<>>]

---------------------------------------------------------------------------
\* The client side as constructed

\* MCPClient.__init__
NewMCPClient ==
    [server_url |-> "http://localhost:8000", bearer_token |-> JStr("my-secret-token-123"),
     session |-> "None", tools |-> << >>, initialized |-> FALSE, request_id |-> 0]

\* The user of the client before "async with": outside.  state is where it
\* stands, enters the number of times it entered, at the place in wire of the
\* request it waits for, again whether initialize() was called in the body.
NewUser == [state |-> "out", enters |-> 0, at |-> 0, again |-> FALSE]

\* A call_tool coroutine not yet started.
NewCallTool == [pc |-> "idle", at |-> 0, outcome |-> Pending]

\* MCPAzureChat.__init__: the history holds the system message.
SystemMessage == [role |-> "system", content |-> "You are an AI customer support chat bot"]

\* The chat object and the frame of chat(): its place, the tool calls of the
\* first response, the index of the loop over them, the place in wire of the
\* tools/call it waits for.  The rest is history: the turns begun; of the
\* last turn the number of model requests, the responses to them, the ids of
\* the tool calls handed to call_tool, and how the turn ended.
NewChat ==
    [conversation_history |-> << SystemMessage >>,
     pc |-> "idle", tool_calls |-> << >>, k |-> 0, at |-> 0,
     turns |-> 0, requests |-> 0, replies |-> << >>, executed |-> << >>,
     ended |-> Pending]

\* main.py: mcp_server = MCPServer(), before any request is served;
\* client.py: MCPClient(...) before "async with" enters it.
Init ==
    /\ cls = MCPServerClass
    /\ mcp_server = NewMCPServer
    /\ tasks = [i \in Tasks |-> NewTask]
    /\ running = 0
    /\ log = <<>>
    /\ together = FALSE
    /\ shadow_server = NewMCPServer
    /\ shadow_tasks = [i \in Tasks |-> NewTask]
    /\ client = NewMCPClient
    /\ wire = << >>
    /\ cm = NewUser
    /\ calls = [k \in Calls |-> NewCallTool]
    /\ chat = NewChat

\* Faulty variant: agent() run on worker threads (a plain def): a switch may come
\* between any two steps.
AwaitPointsThreaded == {"json", "call", "load", "store", "format", "respond"}

\* agent() is a coroutine whose one suspension point is "await
\* request.json()": from there to its return it runs without yielding.
AwaitPoints == {"json"}

CanStep(i) == running = i \/ (running = 0 /\ tasks[i].pc \in AwaitPoints)

\* Faulty variant: agent() catches the exception and answers with a JSON-RPC error
\* object.
FailAsErrorResponse(t, exc) ==
    [t EXCEPT !.outcome = Return([jsonrpc |-> "2.0",
                                  id |-> DictGet(t.request_data, "id", JNone),
                                  error |-> [code |-> -32603, message |-> exc.msg]]),
              !.pc = "done"]

\* An exception leaves agent(): nothing in agent() or handle_request catches.
Fail(t, exc) == [t EXCEPT !.outcome = exc, !.pc = "done"]

---------------------------------------------------------------------------
\* The steps of one agent() coroutine, as functions of the server instance
\* and the coroutine's frame; each gives the two back.

\* method = request_data['method']; params = request_data['params'];
\* bearer_token = request.headers.get('Authorization')
AgentExtract(t) ==
    IF "method" \notin DOMAIN t.request_data
      THEN Fail(t, Raise("KeyError", "'method'"))
    ELSE IF "params" \notin DOMAIN t.request_data
      THEN Fail(t, Raise("KeyError", "'params'"))
    ELSE [t EXCEPT !.method = t.request_data["method"],
                   !.bearer_token = DictGet(t.headers, "Authorization", JNone),
                   !.pc = "call"]

\* request_data = await request.json(), and on to the call of handle_request
AgentReadJson(obj, t, body, hdrs) ==
    [obj |-> obj, t |-> AgentExtract([t EXCEPT !.request_data = body, !.headers = hdrs])]

\* Faulty variant: handle_tools_call counts before it looks at the tool's name.
AgentCallCountFirst(obj, c, t) ==
    LET params == DictGet(t.request_data, "params", EmptyDict)
        h == Route(t.method)
        entered == [t EXCEPT !.handlers = Append(@, h)]
        b == ToolsCallBranch(params, t.bearer_token)
    IN  CASE h = "handle_initialize" ->
                [obj |-> obj,
                 t |-> [entered EXCEPT !.result = HandleInitialize(params), !.pc = "respond"]]
          [] h = "handle_tools_list" ->
                [obj |-> obj,
                 t |-> [entered EXCEPT !.result = HandleToolsList(obj, c, params),
                                       !.pc = "respond"]]
          [] h = "handle_tools_call" ->
                IF b.generate
                  THEN [obj |-> obj,
                        t |-> [entered EXCEPT !.tool_name = b.tool_name, !.pc = "load"]]
                  ELSE [obj |-> SetAttr(obj, "ticket_id", GetAttr(obj, c, "ticket_id") + 1),
                        t |-> Fail([entered EXCEPT !.tool_name = b.tool_name],
                                   UnknownTool(b.tool_name))]
          [] OTHER -> [obj |-> obj, t |-> Fail(t, UnknownMethod(t.method))]

\* mcp_server.handle_request(method, request_data, bearer_token), up to the
\* return of handle_initialize and handle_tools_list, the raise of an unknown
\* method or tool, or the generate_ticket branch of handle_tools_call.
AgentCall(obj, c, t) ==
    LET params == DictGet(t.request_data, "params", EmptyDict)
        h == Route(t.method)
        entered == [t EXCEPT !.handlers = Append(@, h)]
        b == ToolsCallBranch(params, t.bearer_token)
    IN  [obj |-> obj,
         t |-> CASE h = "handle_initialize" ->
                      [entered EXCEPT !.result = HandleInitialize(params), !.pc = "respond"]
                 [] h = "handle_tools_list" ->
                      [entered EXCEPT !.result = HandleToolsList(obj, c, params),
                                      !.pc = "respond"]
                 [] h = "handle_tools_call" ->
                      IF b.generate
                        THEN [entered EXCEPT !.tool_name = b.tool_name, !.pc = "load"]
                        ELSE Fail([entered EXCEPT !.tool_name = b.tool_name],
                                  UnknownTool(b.tool_name))
                 [] OTHER -> Fail(t, UnknownMethod(t.method))]

\* self.ticket_id += 1, first half: the attribute is read.
TicketLoad(obj, c, t) ==
    [obj |-> obj, t |-> [t EXCEPT !.tmp = GetAttr(obj, c, "ticket_id"), !.pc = "store"]]

\* self.ticket_id += 1, second half: the sum is stored.
TicketStore(obj, c, t) ==
    [obj |-> SetAttr(obj, "ticket_id", t.tmp + 1), t |-> [t EXCEPT !.pc = "format"]]

\* Faulty variant: the text is written from the value read before the increment.
TicketFormatStale(obj, c, t) ==
    [obj |-> obj, t |-> [t EXCEPT !.result = TicketResult(t.tmp), !.pc = "respond"]]

\* return {"content": [... f"Ticket generated: ID: {self.ticket_id}" ...]}
TicketFormat(obj, c, t) ==
    [obj |-> obj,
     t |-> [t EXCEPT !.result = TicketResult(GetAttr(obj, c, "ticket_id")),
                     !.pc = "respond"]]

\* Faulty variant: the id is looked up under a key the envelope does not have.
AgentRespondWrongKey(obj, c, t) ==
    [obj |-> obj,
     t |-> [t EXCEPT !.outcome = Return([jsonrpc |-> "2.0",
                                         id |-> DictGet(t.request_data, "Id", JNone),
                                         result |-> t.result]),
                     !.pc = "done"]]

\* return {"jsonrpc": "2.0", "id": request_data.get("id"), "result": result}
AgentRespond(obj, c, t) ==
    [obj |-> obj,
     t |-> [t EXCEPT !.outcome = Return([jsonrpc |-> "2.0",
                                         id |-> DictGet(t.request_data, "id", JNone),
                                         result |-> t.result]),
                     !.pc = "done"]]

---------------------------------------------------------------------------
\* Actions

InFlight == {j \in Tasks : tasks[j].pc \notin {"idle", "done"}}

\* The history fields of coroutine i after a step from t0 to r.t.
Recorded(i, t0, r) ==
    LET t1 == IF t0.pc = "call"
                THEN [r.t EXCEPT !.called = TRUE, !.before = mcp_server,
                                 !.ended_before = log]
                ELSE r.t
    IN  IF t1.pc = "done" THEN [t1 EXCEPT !.after = r.obj] ELSE t1

\* Coroutine i goes on to r; the shadow run makes the same step, s.
Commit(i, r, s) ==
    /\ mcp_server' = r.obj
    /\ tasks' = [tasks EXCEPT ![i] = Recorded(i, tasks[i], r)]
    /\ running' = IF r.t.pc \in AwaitPoints \cup {"done"} THEN 0 ELSE i
    /\ log' = IF r.t.pc = "done" THEN Append(log, i) ELSE log
    /\ shadow_server' = s.obj
    /\ shadow_tasks' = [shadow_tasks EXCEPT ![i] = s.t]
    /\ UNCHANGED <<cls, together, clientVars, chat>>

\* The shadow run's step s, made if its coroutine stands at the same place.
ShadowStep(i, at, s) ==
    IF shadow_tasks[i].pc = at THEN s ELSE [obj |-> shadow_server, t |-> shadow_tasks[i]]

\* A client posts to /agent: the coroutine starts and waits for the body.
Arrive(i) ==
    /\ tasks[i].pc = "idle"
    /\ \A j \in 1..(i - 1) : tasks[j].pc # "idle"
    /\ tasks' = [tasks EXCEPT ![i].pc = "json"]
    /\ shadow_tasks' = [shadow_tasks EXCEPT ![i].pc = "json"]
    /\ together' = (together \/ InFlight \cup {i} = Tasks)
    /\ UNCHANGED <<cls, mcp_server, running, log, shadow_server, clientVars, chat>>

\* The body is in: the loop resumes the coroutine.  The waiting coroutines
\* hold nothing yet, so they are resumed in the order of their numbers.
ReadJson(i) ==
    /\ tasks[i].pc = "json"
    /\ CanStep(i)
    /\ \A j \in 1..(i - 1) : tasks[j].pc \notin {"idle", "json"}
    /\ \E b \in 1..Len(Bodies), h \in 1..Len(Headers) :
          Commit(i, AgentReadJson(mcp_server, tasks[i], Bodies[b], Headers[h]),
                 AgentReadJson(shadow_server, shadow_tasks[i], Bodies[b],
                               Headers[Len(Headers) + 1 - h]))

Call(i) ==
    /\ tasks[i].pc = "call"
    /\ CanStep(i)
    /\ Commit(i, AgentCall(mcp_server, cls, tasks[i]),
              ShadowStep(i, "call", AgentCall(shadow_server, cls, shadow_tasks[i])))

Load(i) ==
    /\ tasks[i].pc = "load"
    /\ CanStep(i)
    /\ Commit(i, TicketLoad(mcp_server, cls, tasks[i]),
              ShadowStep(i, "load", TicketLoad(shadow_server, cls, shadow_tasks[i])))

Store(i) ==
    /\ tasks[i].pc = "store"
    /\ CanStep(i)
    /\ Commit(i, TicketStore(mcp_server, cls, tasks[i]),
              ShadowStep(i, "store", TicketStore(shadow_server, cls, shadow_tasks[i])))

Format(i) ==
    /\ tasks[i].pc = "format"
    /\ CanStep(i)
    /\ Commit(i, TicketFormat(mcp_server, cls, tasks[i]),
              ShadowStep(i, "format", TicketFormat(shadow_server, cls, shadow_tasks[i])))

Respond(i) ==
    /\ tasks[i].pc = "respond"
    /\ CanStep(i)
    /\ Commit(i, AgentRespond(mcp_server, cls, tasks[i]),
              ShadowStep(i, "respond", AgentRespond(shadow_server, cls, shadow_tasks[i])))

Next ==
    \E i \in Tasks :
        \/ Arrive(i)
        \/ ReadJson(i)
        \/ Call(i)
        \/ Load(i)
        \/ Store(i)
        \/ Format(i)
        \/ Respond(i)

Spec == Init /\ [][Next]_vars

---------------------------------------------------------------------------
\* Vocabulary of the properties

Ended(i) == tasks[i].pc = "done"

\* The ticket counter a handler would read now.
Counter == GetAttr(mcp_server, cls, "ticket_id")

\* Coroutine i made a tools/call that returned: a successful generate_ticket.
Generated(i) ==
    /\ Ended(i)
    /\ tasks[i].handlers = <<"handle_tools_call">>
    /\ tasks[i].outcome.kind = "return"

\* The successful generate_ticket calls, in the order they returned.
Tickets == SelectSeq(log, Generated)

\* No coroutine is inside handle_request.
Quiescent == \A i \in Tasks : tasks[i].pc \in {"idle", "json", "done"}

\* The result of a generate_ticket call that hands out ticket n.
TicketText(n) ==
    [content |-> << [type |-> "text", text |-> "Ticket generated: ID: " \o IntToStr(n)] >>]

---------------------------------------------------------------------------
\* C1: of the successful generate_ticket calls, taken in order, the i-th one
\* counted from any call that found the counter at C returns the ticket
\* C + i: the IDs rise by one from call to call, with no gap and no repeat.
SequentialTickets ==
    LET got == Tickets
    IN  \A a \in 1..Len(got) : \A b \in a..Len(got) :
            tasks[got[b]].result = TicketText(tasks[got[a]].before["ticket_id"] + (b - a + 1))

\* Three generate_ticket calls in a row have returned.
SequentialTicketsWitness ==
    /\ Len(Tickets) = 3
    /\ \A i \in Tasks : Ended(i)

\* C2: once the callers are out of handle_request, the counter is its
\* initial value plus the number K of generate_ticket calls that returned,
\* and the IDs they got are initial+1 .. initial+K, each once.
ConcurrentTickets ==
    LET got == Tickets
        ids == {tasks[got[k]].result : k \in 1..Len(got)}
    IN  Quiescent =>
            /\ Counter = NewMCPServer["ticket_id"] + Len(got)
            /\ ids = {TicketText(NewMCPServer["ticket_id"] + k) : k \in 1..Len(got)}
            /\ Cardinality(ids) = Len(got)

\* Every caller was in flight at the same time, and each got a ticket.
ConcurrentTicketsWitness ==
    /\ together
    /\ \A i \in Tasks : Generated(i)

---------------------------------------------------------------------------
\* More vocabulary

Range(q) == {q[k] : k \in 1..Len(q)}

\* handle_request was entered with this method string.
CalledWith(i, m) == tasks[i].called /\ tasks[i].method = JStr(m)

\* The initialize requests answered before coroutine i entered handle_request.
InitsBefore(i) ==
    Cardinality({j \in Range(tasks[i].ended_before) :
                    CalledWith(j, "initialize") /\ tasks[j].outcome.kind = "return"})

\* The tickets handed out before coroutine i entered handle_request.
TicketsBefore(i) == Cardinality({j \in Range(tasks[i].ended_before) : Generated(j)})

\* The tool name of a tools/call request.
RequestedTool(i) == DictGet(tasks[i].request_data["params"], "name", JNone)

\* The one registered tool, as tools/list shows it.
TheTool ==
    [name |-> "generate_ticket",
     description |-> "Generate a ticket for the customer",
     inputSchema |-> [type |-> "object", properties |-> [k \in {} |-> 0],
                      required |-> << >>]]

---------------------------------------------------------------------------
\* C4: initialize and tools/list are pure.  Whatever params it gets, in
\* whatever state, initialize returns the one ServerInfo value and
\* tools/list the one tools value, and the server (counter and registry)
\* is after the call what it was before it.
PureInitializeAndList ==
    \A i \in Tasks :
        /\ CalledWith(i, "initialize") =>
              /\ Ended(i) => tasks[i].outcome.kind = "return" /\ tasks[i].after = tasks[i].before
              /\ tasks[i].result
                    = [protocolVersion |-> "2024-11-05",
                       capabilities |-> [tools |-> [listChanged |-> TRUE]],
                       serverInfo |-> [name |-> "auto-scale-ai", version |-> "1.0.0"]]
        /\ CalledWith(i, "tools/list") =>
              /\ Ended(i) => tasks[i].outcome.kind = "return" /\ tasks[i].after = tasks[i].before
              /\ tasks[i].result = [tools |-> << TheTool >>]

\* initialize with one params, a ticket, then initialize with another params:
\* both initialize calls have returned.
PureWitness ==
    \E i, j, k \in Tasks :
        /\ Ended(i) /\ Generated(j) /\ Ended(k)
        /\ CalledWith(i, "initialize") /\ CalledWith(k, "initialize")
        /\ tasks[i].request_data["params"] # tasks[k].request_data["params"]
        /\ i \in Range(tasks[j].ended_before)
        /\ j \in Range(tasks[k].ended_before)

\* C5: a method string other than the three known ones fails with the
\* unknown-method error naming it, enters no handler and leaves the server
\* as it was.
UnknownMethodFails ==
    \A i \in Tasks :
        (/\ tasks[i].called
         /\ tasks[i].method.kind = "str"
         /\ tasks[i].method.s \notin {"initialize", "tools/list", "tools/call"})
        => /\ Ended(i)
           /\ tasks[i].outcome
                 = [kind |-> "raise", exc |-> "ValueError",
                    msg |-> "Unknown method: " \o tasks[i].method.s]
           /\ tasks[i].handlers = << >>
           /\ tasks[i].after = tasks[i].before

\* A ticket was handed out, and then bogus_method was refused.
UnknownMethodWitness ==
    \E i \in Tasks :
        /\ CalledWith(i, "bogus_method") /\ Ended(i)
        /\ tasks[i].outcome.msg = "Unknown method: bogus_method"
        /\ TicketsBefore(i) >= 1

\* C6: a tools/call returns exactly when the name is "generate_ticket"; with
\* any other name, or none, it fails with the unknown-tool error naming it and
\* leaves the counter alone, so that every ticket is the initial counter plus
\* the number of tickets handed out before, however many calls failed.
OnlyGenerateTicket ==
    \A i \in Tasks :
        (Ended(i) /\ CalledWith(i, "tools/call")) =>
            /\ tasks[i].outcome.kind = "return" <=> RequestedTool(i) = JStr("generate_ticket")
            /\ RequestedTool(i) # JStr("generate_ticket") =>
                  /\ tasks[i].outcome
                        = [kind |-> "raise", exc |-> "ValueError",
                           msg |-> "Unknown tool: "
                                     \o (IF RequestedTool(i).kind = "none"
                                           THEN "None" ELSE RequestedTool(i).s)]
                  /\ tasks[i].after = tasks[i].before
            /\ RequestedTool(i) = JStr("generate_ticket") =>
                  tasks[i].result = TicketText(42 + TicketsBefore(i) + 1)

\* A ticket, a call of an unknown tool, and a ticket again.
OnlyGenerateTicketWitness ==
    \E i, j, k \in Tasks :
        /\ Generated(i) /\ Generated(k)
        /\ Ended(j) /\ CalledWith(j, "tools/call")
        /\ tasks[j].outcome.kind = "raise"
        /\ tasks[j].outcome.msg = "Unknown tool: nonexistent"
        /\ i \in Range(tasks[j].ended_before)
        /\ j \in Range(tasks[k].ended_before)

NoHandshake ==
    /\ \A i \in Tasks :
          (/\ Ended(i)
           /\ \/ CalledWith(i, "tools/list")
              \/ CalledWith(i, "tools/call") /\ RequestedTool(i) = JStr("generate_ticket"))
          => tasks[i].outcome.kind = "return"
    /\ \A i \in Tasks :
          Generated(i) => tasks[i].result = TicketText(tasks[i].before["ticket_id"] + 1)
    /\ \A i, j \in Tasks :
          (/\ Ended(i) /\ Ended(j)
           /\ tasks[i].called /\ tasks[j].called
           /\ tasks[i].request_data = tasks[j].request_data
           /\ tasks[i].before = tasks[j].before)
          => tasks[i].outcome = tasks[j].outcome

\* tools/list was answered before any initialize, then an initialize, then
\* the same tools/list again.
NoHandshakeWitness ==
    \E i, j, k \in Tasks :
        /\ Ended(i) /\ CalledWith(i, "tools/list") /\ InitsBefore(i) = 0
        /\ Ended(j) /\ CalledWith(j, "initialize") /\ i \in Range(tasks[j].ended_before)
        /\ Ended(k) /\ CalledWith(k, "tools/list") /\ InitsBefore(k) = 1
        /\ tasks[i].request_data = tasks[k].request_data
        /\ tasks[i].outcome = tasks[k].outcome

\* C9 as stated: a body without "params" is served as one with empty params:
\* initialize and tools/list return their results, tools/call fails with the
\* unknown-tool error for the missing name.
NoParamsAsEmpty ==
    \A i \in Tasks :
        (Ended(i) /\ "params" \notin DOMAIN tasks[i].request_data) =>
            CASE tasks[i].request_data["method"] = JStr("initialize") ->
                    /\ tasks[i].outcome.kind = "return"
                    /\ tasks[i].result = HandleInitialize(EmptyDict)
              [] tasks[i].request_data["method"] = JStr("tools/list") ->
                    /\ tasks[i].outcome.kind = "return"
                    /\ tasks[i].result = [tools |-> << TheTool >>]
              [] tasks[i].request_data["method"] = JStr("tools/call") ->
                    /\ tasks[i].handlers = <<"handle_tools_call">>
                    /\ tasks[i].outcome
                          = [kind |-> "raise", exc |-> "ValueError",
                             msg |-> "Unknown tool: None"]
              [] OTHER -> TRUE

\* What of a coroutine does not come from the Authorization header.
TokenFree(t) ==
    [pc |-> t.pc, request_data |-> t.request_data, method |-> t.method,
     tool_name |-> t.tool_name, tmp |-> t.tmp, result |-> t.result,
     outcome |-> t.outcome, handlers |-> t.handlers]

---------------------------------------------------------------------------
\* The core returns for coroutine i: handle_request was called with a known
\* method, and a tools/call names generate_ticket.
CoreReturns(i) ==
    /\ tasks[i].called
    /\ \/ CalledWith(i, "initialize")
       \/ CalledWith(i, "tools/list")
       \/ CalledWith(i, "tools/call") /\ RequestedTool(i) = JStr("generate_ticket")

\* What the core returns for coroutine i's request when n tickets were
\* handed out before it.
CoreResult(i, n) ==
    IF CalledWith(i, "initialize")
      THEN [protocolVersion |-> "2024-11-05",
            capabilities |-> [tools |-> [listChanged |-> TRUE]],
            serverInfo |-> [name |-> "auto-scale-ai", version |-> "1.0.0"]]
    ELSE IF CalledWith(i, "tools/list")
      THEN [tools |-> << TheTool >>]
    ELSE TicketText(n + 1)

\* C11: a request on which the core returns is answered with exactly the
\* envelope {jsonrpc "2.0", id of that request, result the core returned for
\* that request}; with requests of several clients in flight together no
\* answer carries the id or the result of another request.
EchoedResponse ==
    \A i \in Tasks :
        (Ended(i) /\ CoreReturns(i)) =>
            /\ tasks[i].outcome.kind = "return"
            /\ DOMAIN tasks[i].outcome.value = {"jsonrpc", "id", "result"}
            /\ tasks[i].outcome.value["jsonrpc"] = "2.0"
            /\ tasks[i].outcome.value["id"] = tasks[i].request_data["id"]
            /\ tasks[i].outcome.value["result"] = CoreResult(i, tasks[i].before["ticket_id"])

\* Three requests were in flight together, with three ids and three results,
\* and all three are answered.
EchoedResponseWitness ==
    /\ together
    /\ \A i \in Tasks : Ended(i) /\ CoreReturns(i)
    /\ \A i, j \in Tasks :
          i # j => /\ tasks[i].request_data["id"] # tasks[j].request_data["id"]
                   /\ tasks[i].outcome.value["result"] # tasks[j].outcome.value["result"]

\* The tools/call coroutines that have stored their increment.
Counted ==
    {i \in Tasks : /\ tasks[i].handlers = <<"handle_tools_call">>
                   /\ tasks[i].pc \in {"format", "respond", "done"}
                   /\ tasks[i].outcome.kind # "raise"}

\* C12: in every state the counter is its initial value plus the number of
\* generate_ticket calls that have made their increment; a call that
\* returned raised it by exactly one and its text shows the counter after
\* that increment; every other request leaves it as it found it; and no
\* step lowers it, or changes it other than the store of a generate_ticket
\* call, by one.
CounterLaw ==
    /\ [](Counter = NewMCPServer["ticket_id"] + Cardinality(Counted))
    /\ [](\A i \in Tasks :
            Ended(i) /\ tasks[i].called =>
                IF Generated(i)
                  THEN /\ tasks[i].after["ticket_id"] = tasks[i].before["ticket_id"] + 1
                       /\ tasks[i].result = TicketText(tasks[i].after["ticket_id"])
                  ELSE tasks[i].after["ticket_id"] = tasks[i].before["ticket_id"])
    /\ [][/\ Counter' >= Counter
          /\ Counter' # Counter =>
                /\ Counter' = Counter + 1
                /\ \E i \in Tasks : /\ tasks[i].pc = "store"
                                     /\ tasks'[i].pc = "format"
                                     /\ tasks[i].tool_name = JStr("generate_ticket")]_vars

\* A ticket, a failed tools/call and a second ticket: the counter is 44.
CounterLawWitness ==
    /\ Quiescent
    /\ Counter = 44
    /\ Len(Tickets) = 2
    /\ \E j \in Tasks :
          /\ Ended(j) /\ CalledWith(j, "tools/call") /\ tasks[j].outcome.kind = "raise"
          /\ Tickets[1] \in Range(tasks[j].ended_before)
          /\ j \in Range(tasks[Tickets[2]].ended_before)

\* The core fails for coroutine i: handle_request was called with an unknown
\* method, or a tools/call names a tool other than generate_ticket.
CoreFails(i) == tasks[i].called /\ ~CoreReturns(i)

\* C13: a failure of the core leaves agent() as the exception it is: the
\* coroutine ends with the ValueError, not with a result envelope nor with
\* an error object.  The server goes on: the failed coroutine no longer holds
\* the loop, the server is as the request found it, and every request served
\* after a failed one is answered as the count of the tickets handed out
\* before it alone demands, the failed requests counting for nothing.
FailurePropagates ==
    /\ \A i \in Tasks :
          (Ended(i) /\ CoreFails(i)) =>
              /\ tasks[i].outcome.kind = "raise"
              /\ tasks[i].outcome.exc = "ValueError"
              /\ tasks[i].result = NewTask.result
              /\ tasks[i].after = tasks[i].before
              /\ running # i
    /\ \A j \in Tasks :
          (/\ Ended(j)
           /\ \E i \in Range(tasks[j].ended_before) : tasks[i].outcome.kind = "raise"
           /\ CoreReturns(j)) =>
              tasks[j].outcome
                  = Return([jsonrpc |-> "2.0", id |-> tasks[j].request_data["id"],
                            result |-> CoreResult(j, 42 + TicketsBefore(j))])

\* An unknown method and an unknown tool have failed, and the request after
\* them got the first ticket.
FailurePropagatesWitness ==
    \E i, j, k \in Tasks :
        /\ Ended(i) /\ CalledWith(i, "bogus_method") /\ tasks[i].outcome.kind = "raise"
        /\ Ended(j) /\ CalledWith(j, "tools/call") /\ tasks[j].outcome.kind = "raise"
        /\ Generated(k)
        /\ tasks[k].ended_before = <<i, j>>
        /\ tasks[k].outcome.value["result"] = TicketText(43)

---------------------------------------------------------------------------
\* MCPClient (client.py)

\* _get_headers
GetHeaders(c) ==
    IF c.bearer_token # JNone /\ c.bearer_token # JStr("")
      THEN [k \in {"Content-Type", "Authorization"} |->
               IF k = "Authorization" THEN "Bearer " \o PyFormat(c.bearer_token)
                                      ELSE "application/json"]
      ELSE [k \in {"Content-Type"} |-> "application/json"]

\* Faulty variant: the id handed out is the counter before the increment.
GetNextIdPost(c) == [c |-> [c EXCEPT !.request_id = @ + 1], id |-> c.request_id]

\* _get_next_id: self.request_id += 1; return self.request_id
GetNextId(c) == [c |-> [c EXCEPT !.request_id = @ + 1], id |-> c.request_id + 1]

\* _send_request up to the post: the envelope is built, with the next id, and
\* goes out to server_url/agent.
SendRequest(c, method, params) ==
    LET n == GetNextId(c)
    IN  [c |-> n.c,
         sends |-> << [url |-> c.server_url \o "/agent",
                       headers |-> GetHeaders(c),
                       request_data |-> [jsonrpc |-> "2.0", id |-> n.id, method |-> method,
                                         params |-> IF params = JNone THEN EmptyDict
                                                                      ELSE params]] >>]

\* _send_request from the post on: result = await response.json(), which
\* raises if the post or the decoding fails; an "error" member raises.
ReceiveResponse(reply) ==
    IF reply.kind = "raise" THEN reply
    ELSE IF "error" \in DOMAIN reply.value
      THEN Raise("Exception", "MCP Error: " \o PyFormat(reply.value["error"]))
    ELSE Return(DictGet(reply.value, "result", EmptyDict))

\* Faulty variant: initialize() without its "if self.initialized: return".
InitializeBeginAlways(c) ==
    LET s == SendRequest(c, "initialize",
                         [protocolVersion |-> "2024-11-05", capabilities |-> EmptyDict])
    IN  [c |-> s.c, sends |-> s.sends, pc |-> "init_wait", outcome |-> Pending]

\* initialize() up to its first await.
InitializeBegin(c) ==
    IF c.initialized
      THEN [c |-> c, sends |-> << >>, pc |-> "returned", outcome |-> Return(JNone)]
      ELSE LET s == SendRequest(c, "initialize",
                                [protocolVersion |-> "2024-11-05",
                                 capabilities |-> EmptyDict])
           IN  [c |-> s.c, sends |-> s.sends, pc |-> "init_wait", outcome |-> Pending]

\* Faulty variant: initialized is set as soon as the initialize request is answered.
InitializeOnResultMarks(c, outcome) ==
    IF outcome.kind = "raise"
      THEN [c |-> c, sends |-> << >>, pc |-> "raised", outcome |-> outcome]
      ELSE LET s == SendRequest([c EXCEPT !.initialized = TRUE], "tools/list", JNone)
           IN  [c |-> s.c, sends |-> s.sends, pc |-> "list_wait", outcome |-> Pending]

\* initialize() from the answer to "initialize" to its second await.
InitializeOnResult(c, outcome) ==
    IF outcome.kind = "raise"
      THEN [c |-> c, sends |-> << >>, pc |-> "raised", outcome |-> outcome]
      ELSE LET s == SendRequest(c, "tools/list", JNone)
           IN  [c |-> s.c, sends |-> s.sends, pc |-> "list_wait", outcome |-> Pending]

\* initialize() from the answer to "tools/list" to its end: the tools are
\* stored, their names are printed, initialized is set.
InitializeOnTools(c, outcome) ==
    IF outcome.kind = "raise"
      THEN [c |-> c, sends |-> << >>, pc |-> "raised", outcome |-> outcome]
      ELSE LET tools == DictGet(outcome.value, "tools", << >>)
               stored == [c EXCEPT !.tools = tools]
           IN  IF \E k \in 1..Len(tools) : "name" \notin DOMAIN tools[k]
                 THEN [c |-> stored, sends |-> << >>, pc |-> "raised",
                       outcome |-> Raise("KeyError", "'name'")]
                 ELSE [c |-> [stored EXCEPT !.initialized = TRUE], sends |-> << >>,
                       pc |-> "returned", outcome |-> Return(JNone)]

\* call_tool up to its await
CallToolBegin(c, tool_name, arguments) ==
    SendRequest(c, "tools/call",
                [name |-> tool_name,
                 arguments |-> IF arguments = JNone THEN EmptyDict ELSE arguments])

\* call_tool from the answer on: the text of the first content item.
CallToolOnResult(outcome) ==
    IF outcome.kind = "raise" THEN outcome
    ELSE LET content == DictGet(outcome.value, "content", << >>)
         IN  IF Len(content) > 0
               THEN Return(DictGet(content[1], "text", JStr("No text content returned")))
               ELSE Return(JStr("No content returned"))

---------------------------------------------------------------------------
\* What may come back from the server

JsonBody(v) == Return(v)

ConnectionError == Raise("ClientError", "Cannot connect to host")

ErrorBody == JsonBody([jsonrpc |-> "2.0", id |-> JNone, error |-> JStr("Internal error")])

\* A tool entry without a name.
NamelessTool == [description |-> "?"]

InitializeReplies ==
    << JsonBody([jsonrpc |-> "2.0", id |-> JInt(1), result |-> HandleInitialize(EmptyDict)]),
       ErrorBody,
       ConnectionError >>

ListReplies ==
    << JsonBody([jsonrpc |-> "2.0", id |-> JInt(2), result |-> [tools |-> << TheTool >>]]),
       JsonBody([jsonrpc |-> "2.0", id |-> JInt(2), result |-> EmptyDict]),
       JsonBody([jsonrpc |-> "2.0", id |-> JInt(2), result |-> [tools |-> << NamelessTool >>]]),
       ErrorBody,
       ConnectionError >>

CallReplies ==
    << JsonBody([jsonrpc |-> "2.0", id |-> JInt(3),
                 result |-> [content |-> << [type |-> "text",
                                             text |-> JStr("Ticket generated: ID: 43")] >>]]),
       JsonBody([jsonrpc |-> "2.0", id |-> JInt(3), result |-> [content |-> << >>]]),
       ErrorBody,
       ConnectionError >>

ToolNames == << JStr("generate_ticket"), JStr("nonexistent") >>

---------------------------------------------------------------------------
\* Actions of the client

\* The requests go on the wire; each waits for its answer.
OnWire(w, sends) ==
    w \o [k \in 1..Len(sends) |->
             [request |-> sends[k], status |-> "sent", returned |-> EmptyDict]]

\* The request at place n of wire is answered with outcome o.
Answered(w, n, o) ==
    [w EXCEPT ![n].status = IF o.kind = "raise" THEN "failed" ELSE "ok",
              ![n].returned = IF o.kind = "raise" THEN EmptyDict ELSE o.value]

\* Where the user stands after a step of initialize() that ended at pc: in
\* the body when it returned, outside when it raised.
After(pc) == IF pc = "returned" THEN "in" ELSE IF pc = "raised" THEN "out" ELSE pc

\* "async with client": __aenter__ opens a session and awaits initialize().
Enter ==
    /\ cm.state = "out"
    /\ cm.enters < MaxEnters
    /\ LET r == InitializeBegin([client EXCEPT !.session = "open"])
       IN  /\ client' = r.c
           /\ wire' = OnWire(wire, r.sends)
           /\ cm' = [cm EXCEPT !.state = After(r.pc), !.enters = @ + 1,
                               !.at = Len(wire) + 1]
    /\ UNCHANGED <<serverVars, calls, chat>>

\* The answer to the initialize request is in.
InitializeReply ==
    /\ cm.state = "init_wait"
    /\ \E a \in 1..Len(InitializeReplies) :
          LET o == ReceiveResponse(InitializeReplies[a])
              r == InitializeOnResult(client, o)
          IN  /\ client' = r.c
              /\ wire' = OnWire(Answered(wire, cm.at, o), r.sends)
              /\ cm' = [cm EXCEPT !.state = After(r.pc), !.at = Len(wire) + 1]
    /\ UNCHANGED <<serverVars, calls, chat>>

\* The answer to the tools/list request is in.
ListReply ==
    /\ cm.state = "list_wait"
    /\ \E a \in 1..Len(ListReplies) :
          LET o == ReceiveResponse(ListReplies[a])
              r == InitializeOnTools(client, o)
          IN  /\ client' = r.c
              /\ wire' = OnWire(Answered(wire, cm.at, o), r.sends)
              /\ cm' = [cm EXCEPT !.state = After(r.pc), !.at = Len(wire) + 1]
    /\ UNCHANGED <<serverVars, calls, chat>>

\* The body calls initialize() once more.
InitializeAgain ==
    /\ cm.state = "in"
    /\ LET r == InitializeBegin(client)
       IN  /\ client' = r.c
           /\ wire' = OnWire(wire, r.sends)
           /\ cm' = [cm EXCEPT !.state = After(r.pc), !.again = TRUE,
                               !.at = Len(wire) + 1]
    /\ UNCHANGED <<serverVars, calls, chat>>

\* The body starts a call_tool coroutine, which runs up to its await.
CallTool(k) ==
    /\ cm.state = "in"
    /\ calls[k].pc = "idle"
    /\ \A j \in 1..(k - 1) : calls[j].pc # "idle"
    /\ \E n \in 1..Len(ToolNames), args \in {JNone, EmptyDict} :
          LET s == CallToolBegin(client, ToolNames[n], args)
          IN  /\ client' = s.c
              /\ wire' = OnWire(wire, s.sends)
              /\ calls' = [calls EXCEPT ![k] = [pc |-> "wait", at |-> Len(wire) + 1,
                                               outcome |-> Pending]]
    /\ UNCHANGED <<serverVars, cm, chat>>

\* The answer to a tools/call request is in: call_tool returns or raises.
CallReply(k) ==
    /\ calls[k].pc = "wait"
    /\ \E a \in 1..Len(CallReplies) :
          LET o == ReceiveResponse(CallReplies[a])
          IN  /\ wire' = Answered(wire, calls[k].at, o)
              /\ calls' = [calls EXCEPT ![k].pc = "done",
                                        ![k].outcome = CallToolOnResult(o)]
    /\ UNCHANGED <<serverVars, client, cm, chat>>

\* The body is over: __aexit__ closes the session.
Exit ==
    /\ cm.state = "in"
    /\ \A k \in Calls : calls[k].pc # "wait"
    /\ chat.pc = "idle"
    /\ client' = [client EXCEPT !.session = "closed"]
    /\ cm' = [cm EXCEPT !.state = "out"]
    /\ UNCHANGED <<serverVars, wire, calls, chat>>

NextClient ==
    \/ Enter
    \/ InitializeReply
    \/ ListReply
    \/ InitializeAgain
    \/ \E k \in Calls : CallTool(k) \/ CallReply(k)
    \/ Exit

SpecClient == Init /\ [][NextClient]_vars

---------------------------------------------------------------------------
\* Vocabulary of the client's properties

\* The method of the n-th request the client sent.
Method(n) == wire[n].request.request_data.method

\* The n-th and the next request are a handshake that succeeded: an
\* initialize and a tools/list, both answered with a result.
Handshake(n) ==
    /\ n + 1 <= Len(wire)
    /\ Method(n) = "initialize" /\ wire[n].status = "ok"
    /\ Method(n + 1) = "tools/list" /\ wire[n + 1].status = "ok"

\* C14: the first request of a client entered with "async with" is
\* initialize; the request after an initialize that succeeded is tools/list,
\* and no tools/list is sent otherwise; a tools/call is sent only after an
\* initialize and the tools/list after it both succeeded.  Once initialize()
\* has set initialized, a further initialize(), from the body or from
\* entering again, sends nothing and leaves tools and initialized alone.
HandshakeFirst ==
    /\ [](/\ Len(wire) >= 1 => Method(1) = "initialize"
          /\ Len(wire) >= 2 /\ wire[1].status = "ok" => Method(2) = "tools/list"
          /\ \A n \in 1..Len(wire) :
                /\ Method(n) = "tools/list" =>
                      n > 1 /\ Method(n - 1) = "initialize" /\ wire[n - 1].status = "ok"
                /\ Method(n) = "tools/call" => \E a \in 1..(n - 2) : Handshake(a))
    /\ [][(client.initialized /\ \A k \in Calls : calls'[k].pc = calls[k].pc) =>
              /\ wire' = wire
              /\ client'.tools = client.tools
              /\ client'.initialized]_vars

\* The client was entered, left and entered again, initialize() was called
\* in the body, and a tool was called: one initialize, one tools/list and the
\* tools/call are all it sent.
HandshakeFirstWitness ==
    /\ cm.enters = 2 /\ cm.state = "in" /\ cm.again
    /\ Len(wire) = 3
    /\ Handshake(1)
    /\ Method(3) = "tools/call"

\* The id of the n-th request the client sent.
RequestId(n) == wire[n].request.request_data.id

\* C15: the n-th request a client sends carries the id n, whatever the
\* request is and whatever becomes of it: the first has 1, each next one
\* more than the one before, no two the same, also while several call_tool
\* coroutines wait for their answers; and the client's counter is the
\* number of requests it sent.
SequentialIds ==
    /\ \A n \in 1..Len(wire) : RequestId(n) = n
    /\ \A n \in 2..Len(wire) : RequestId(n) = RequestId(n - 1) + 1
    /\ \A m, n \in 1..Len(wire) : m # n => RequestId(m) # RequestId(n)
    /\ client.request_id = Len(wire)

\* After an initialize that failed and a handshake, two call_tool coroutines
\* are in flight together: five requests were sent.
SequentialIdsWitness ==
    /\ Len(wire) = 5
    /\ wire[1].status = "failed"
    /\ Handshake(2)
    /\ \A k \in Calls : calls[k].pc = "wait"
    /\ {calls[k].at : k \in Calls} = {4, 5}

\* C16: initialized is set only when an initialize and the tools/list after
\* it were both answered with a result, and tools is then the tools member
\* of that tools/list result (the empty list when it has none).  A request
\* of the handshake that fails, by an error body or by an exception, ends
\* initialize() with initialized still false; the request after it, if there
\* is one, is an initialize; and entering a client that is not initialized
\* sends the initialize request first.
InitializedOnlyAfterHandshake ==
    /\ [](/\ client.initialized =>
                \E a \in 1..Len(wire) :
                    /\ Handshake(a)
                    /\ client.tools = DictGet(wire[a + 1].returned, "tools", << >>)
                    /\ \A b \in (a + 2)..Len(wire) : Method(b) = "tools/call"
          /\ \A n \in 1..Len(wire) :
                (Method(n) \in {"initialize", "tools/list"} /\ wire[n].status = "failed") =>
                    /\ n = Len(wire) => ~client.initialized /\ cm.state = "out"
                    /\ n < Len(wire) => Method(n + 1) = "initialize")
    /\ [][/\ (cm.state \in {"init_wait", "list_wait"} /\ wire'[cm.at].status = "failed") =>
                ~client'.initialized /\ cm'.state = "out"
          /\ (cm.state = "out" /\ ~client.initialized /\ cm'.enters = cm.enters + 1) =>
                /\ Len(wire') = Len(wire) + 1
                /\ wire'[Len(wire')].request.request_data.method = "initialize"
                /\ cm'.state = "init_wait"]_vars

\* The tools/list of the first handshake was refused; the client was entered
\* again, the handshake ran again from initialize and succeeded.
InitializedOnlyAfterHandshakeWitness ==
    /\ Len(wire) = 4
    /\ Method(1) = "initialize" /\ wire[1].status = "ok"
    /\ Method(2) = "tools/list" /\ wire[2].status = "failed"
    /\ Handshake(3)
    /\ client.initialized
    /\ Len(client.tools) = 1 /\ client.tools[1]["name"] = "generate_ticket"

---------------------------------------------------------------------------
\* MCPAzureChat (client.py)

\* get_tools_for_openai: tool["name"] and tool["description"] are indexed,
\* the schema has a default.
GetToolsForOpenAI(c) ==
    IF \E k \in 1..Len(c.tools) : "name" \notin DOMAIN c.tools[k]
      THEN Raise("KeyError", "'name'")
    ELSE IF \E k \in 1..Len(c.tools) : "description" \notin DOMAIN c.tools[k]
      THEN Raise("KeyError", "'description'")
    ELSE Return([k \in 1..Len(c.tools) |->
                    [type |-> "function",
                     function |->
                        [name |-> c.tools[k]["name"],
                         description |-> c.tools[k]["description"],
                         parameters |->
                            DictGet(c.tools[k], "inputSchema",
                                    [type |-> "object", properties |-> EmptyDict,
                                     required |-> << >>])]]])

\* json.loads on the argument strings the model sends here.
JsonLoads(text) ==
    CASE text = "{}" -> Return(EmptyDict)
      [] text = "{\"priority\": \"high\"}" -> Return([priority |-> JStr("high")])
      [] OTHER -> Raise("JSONDecodeError", "Expecting property name enclosed in double quotes")

\* bool(message.tool_calls): None and the empty list are false.
Truthy(tool_calls) == tool_calls.kind = "list" /\ Len(tool_calls.items) > 0

\* chat() leaves with an exception.
ChatRaise(ch, c, exc) ==
    [ch |-> [ch EXCEPT !.pc = "idle", !.ended = exc], c |-> c, sends |-> << >>]

\* chat() returns.
ChatReturn(ch, c, value) ==
    [ch |-> [ch EXCEPT !.pc = "idle", !.ended = Return(value)], c |-> c, sends |-> << >>]

\* chat() from its start to the first model request: the user message is
\* appended, the tools are converted, the request goes out.
ChatBegin(ch, c, user_message) ==
    LET begun == [ch EXCEPT !.conversation_history =
                                Append(@, [role |-> "user", content |-> user_message]),
                            !.tool_calls = << >>, !.k = 0, !.at = 0,
                            !.turns = @ + 1, !.requests = 0, !.replies = << >>,
                            !.executed = << >>, !.ended = Pending]
        tools == GetToolsForOpenAI(c)
    IN  IF tools.kind = "raise"
          THEN ChatRaise(begun, c, tools)
          ELSE [ch |-> [begun EXCEPT !.pc = "model1", !.requests = 1],
                c |-> c, sends |-> << >>]

\* The head of "for tool_call in message.tool_calls", at index ch.k: the
\* arguments are decoded and call_tool runs up to its await; after the last
\* tool call the second model request goes out.
ChatToolLoop(ch, c) ==
    IF ch.k > Len(ch.tool_calls)
      THEN [ch |-> [ch EXCEPT !.pc = "model2", !.requests = @ + 1],
            c |-> c, sends |-> << >>]
      ELSE LET tool_call == ch.tool_calls[ch.k]
               function_name == tool_call.function.name
               function_args == IF tool_call.function.arguments # ""
                                  THEN JsonLoads(tool_call.function.arguments)
                                  ELSE Return(EmptyDict)
               s == CallToolBegin(c, function_name, function_args.value)
           IN  IF function_args.kind = "raise"
                 THEN ChatRaise(ch, c, function_args)
                 ELSE [ch |-> [ch EXCEPT !.pc = "tool_wait",
                                         !.executed = Append(@, tool_call.id)],
                       c |-> s.c, sends |-> s.sends]

\* chat() from the first model response on: with tool calls the assistant
\* message that lists them is appended and the loop starts; without, the
\* content is appended and returned.
ChatOnFirst(ch, c, reply) ==
    LET got == [ch EXCEPT !.replies = Append(@, reply)]
        message == reply.value
    IN  IF reply.kind = "raise" THEN ChatRaise(got, c, reply)
        ELSE IF Truthy(message.tool_calls)
          THEN ChatToolLoop(
                  [got EXCEPT
                      !.conversation_history =
                          Append(@, [role |-> "assistant", content |-> message.content,
                                     tool_calls |->
                                        [j \in 1..Len(message.tool_calls.items) |->
                                            [id |-> message.tool_calls.items[j].id,
                                             type |-> message.tool_calls.items[j].type,
                                             function |->
                                                [name |-> message.tool_calls.items[j]
                                                              .function.name,
                                                 arguments |-> message.tool_calls.items[j]
                                                                   .function.arguments]]]]),
                      !.tool_calls = message.tool_calls.items,
                      !.k = 1],
                  c)
          ELSE ChatReturn([got EXCEPT !.conversation_history =
                                          Append(@, [role |-> "assistant",
                                                     content |-> message.content])],
                          c, message.content)

\* chat() from the return of call_tool on: the tool message is appended and
\* the loop goes to the next tool call.
ChatOnTool(ch, c, outcome) ==
    IF outcome.kind = "raise" THEN ChatRaise(ch, c, outcome)
    ELSE ChatToolLoop([ch EXCEPT !.conversation_history =
                                     Append(@, [role |-> "tool", content |-> outcome.value,
                                                tool_call_id |-> ch.tool_calls[ch.k].id]),
                                 !.k = @ + 1],
                      c)

\* chat() from the second model response on: its content is appended and
\* returned; its tool calls are not looked at.
ChatOnFinal(ch, c, reply) ==
    LET got == [ch EXCEPT !.replies = Append(@, reply)]
    IN  IF reply.kind = "raise" THEN ChatRaise(got, c, reply)
        ELSE ChatReturn([got EXCEPT !.conversation_history =
                                        Append(@, [role |-> "assistant",
                                                   content |-> reply.value.content])],
                        c, reply.value.content)

---------------------------------------------------------------------------
\* What may come back from the model

\* response.choices[0].message
Message(content, tool_calls) == Return([content |-> content, tool_calls |-> tool_calls])

APIError == Raise("APIConnectionError", "Connection error.")

\* The function calls the model may ask for: the server's tool, a tool the
\* server does not have, and arguments that are not JSON.
Functions ==
    << [name |-> JStr("generate_ticket"), arguments |-> "{}"],
       [name |-> JStr("nonexistent"), arguments |-> ""],
       [name |-> JStr("generate_ticket"), arguments |-> "{"] >>

\* The tool calls of one response that asks for the functions f[1], f[2], ...
ToolCalls(f) ==
    [kind |-> "list",
     items |-> [j \in DOMAIN f |->
                   [id |-> "call_" \o IntToStr(j), type |-> "function",
                    function |-> Functions[f[j]]]]]

ToolCallLists == UNION {[1..n -> 1..Len(Functions)] : n \in 1..MaxToolCalls}

PlainReplies ==
    << APIError,
       Message(JStr("We are aware of the issue."), JNone),
       Message(JStr("Try a soft reset."), [kind |-> "list", items |-> << >>]) >>

FinalReplies ==
    << APIError,
       Message(JStr("Your ticket has been generated."), JNone),
       Message(JNone, ToolCalls(<< 1 >>)) >>

UserInputs == << "my car does not start" >>

---------------------------------------------------------------------------
\* Actions of main(): the handshake is Enter, InitializeReply and ListReply

\* chat() goes on to r.
ChatCommit(r) ==
    /\ chat' = [r.ch EXCEPT !.at = Len(wire) + 1]
    /\ client' = r.c
    /\ wire' = OnWire(wire, r.sends)
    /\ UNCHANGED <<serverVars, cm, calls>>

\* main() enters the client, once.
MainEnter == cm.enters = 0 /\ Enter

\* The user types a line: chat.chat(user_input) runs to its first await.
UserTurn ==
    /\ cm.state = "in"
    /\ chat.pc = "idle"
    /\ chat.turns < MaxTurns
    /\ \E u \in 1..Len(UserInputs) : ChatCommit(ChatBegin(chat, client, UserInputs[u]))

\* The first model response is in.
ModelReply ==
    /\ chat.pc = "model1"
    /\ \/ \E a \in 1..Len(PlainReplies) : ChatCommit(ChatOnFirst(chat, client, PlainReplies[a]))
       \/ \E f \in ToolCallLists :
             ChatCommit(ChatOnFirst(chat, client, Message(JNone, ToolCalls(f))))

\* The answer to the tools/call request of the chat is in.
ToolReply ==
    /\ chat.pc = "tool_wait"
    /\ \E a \in 1..Len(CallReplies) :
          LET o == ReceiveResponse(CallReplies[a])
              r == ChatOnTool(chat, client, CallToolOnResult(o))
          IN  /\ chat' = [r.ch EXCEPT !.at = Len(wire) + 1]
              /\ client' = r.c
              /\ wire' = OnWire(Answered(wire, chat.at, o), r.sends)
    /\ UNCHANGED <<serverVars, cm, calls>>

\* The second model response is in.
FinalReply ==
    /\ chat.pc = "model2"
    /\ \E a \in 1..Len(FinalReplies) : ChatCommit(ChatOnFinal(chat, client, FinalReplies[a]))

NextChat ==
    \/ MainEnter
    \/ InitializeReply
    \/ ListReply
    \/ UserTurn
    \/ ModelReply
    \/ ToolReply
    \/ FinalReply
    \/ Exit

SpecChat == Init /\ [][NextChat]_vars

---------------------------------------------------------------------------
\* Vocabulary of the chat's properties

\* In the history h every assistant message that lists tool calls is
\* followed by the tool messages of exactly these calls, in their order.
WellFormed(h) ==
    \A a \in 1..Len(h) :
        (h[a].role = "assistant" /\ "tool_calls" \in DOMAIN h[a]) =>
            LET n == Len(h[a].tool_calls)
            IN  /\ a + n <= Len(h)
                /\ \A j \in 1..n :
                      /\ h[a + j].role = "tool"
                      /\ h[a + j].tool_call_id = h[a].tool_calls[j].id
                /\ a + n + 1 <= Len(h) => h[a + n + 1].role # "tool"

\* The last turn is over.
TurnOver == chat.pc = "idle" /\ chat.turns > 0

\* C17 as stated: whenever no chat() is in progress, after a return or after
\* an exception that main() caught, the conversation history is well formed.
HistoryWellFormed == chat.pc = "idle" => WellFormed(chat.conversation_history)

\* C18 as stated: a turn makes at most two model requests; when the first
\* response lists tool calls and no model request fails, every listed tool
\* call is handed to call_tool once, in the listed order, then the second
\* model request is made, and the turn returns the content of its response,
\* which goes into the history without tool calls.
TurnRunsAllToolCalls ==
    TurnOver =>
        /\ chat.requests <= 2
        /\ (/\ Len(chat.replies) >= 1
            /\ \A r \in 1..Len(chat.replies) : chat.replies[r].kind = "return"
            /\ Truthy(chat.replies[1].value.tool_calls)) =>
              LET listed == chat.replies[1].value.tool_calls.items
                  h == chat.conversation_history
              IN  /\ chat.executed = [j \in 1..Len(listed) |-> listed[j].id]
                  /\ chat.requests = 2
                  /\ Len(chat.replies) = 2
                  /\ chat.ended = Return(chat.replies[2].value.content)
                  /\ h[Len(h)] = [role |-> "assistant",
                                  content |-> chat.replies[2].value.content]

====
